---- MODULE Spec2Model ----
(***************************************************************************)
(* Model of mermaid_mcp_server.py: the text helpers                        *)
(* (appears_to_be_mermaid_code, extract_mermaid_code,                      *)
(* sanitize_markdown_in_labels) and the tool handler handle_call_tool      *)
(* (generate_diagram, validate_mermaid).                                   *)
(*                                                                         *)
(* Text is a sequence of one-character strings.  The en dash written by    *)
(* the sanitizer is the single character "ENDASH", the backquote is the    *)
(* single character "BQ".                                                  *)
(***************************************************************************)
EXTENDS Integers, Sequences, FiniteSets, TLC

(***************************************************************************)
(* Character classes of Python's re module, restricted to ASCII.           *)
(***************************************************************************)
LowerLetters ==
  {"a", "b", "c", "d", "e", "f", "g", "h", "i", "j", "k", "l", "m",
   "n", "o", "p", "q", "r", "s", "t", "u", "v", "w", "x", "y", "z"}

UpperLetters ==
  {"A", "B", "C", "D", "E", "F", "G", "H", "I", "J", "K", "L", "M",
   "N", "O", "P", "Q", "R", "S", "T", "U", "V", "W", "X", "Y", "Z"}

Digits == {"0", "1", "2", "3", "4", "5", "6", "7", "8", "9"}

\* \s
IsSpace(c) == c \in {" ", "\n", "\t", "\r"}

\* \d
IsDigit(c) == c \in Digits

\* \w
IsWord(c) == c \in LowerLetters \cup UpperLetters \cup Digits \cup {"_"}

UpperToLower ==
  [c \in UpperLetters |->
     CASE c = "A" -> "a" [] c = "B" -> "b" [] c = "C" -> "c" [] c = "D" -> "d"
       [] c = "E" -> "e" [] c = "F" -> "f" [] c = "G" -> "g" [] c = "H" -> "h"
       [] c = "I" -> "i" [] c = "J" -> "j" [] c = "K" -> "k" [] c = "L" -> "l"
       [] c = "M" -> "m" [] c = "N" -> "n" [] c = "O" -> "o" [] c = "P" -> "p"
       [] c = "Q" -> "q" [] c = "R" -> "r" [] c = "S" -> "s" [] c = "T" -> "t"
       [] c = "U" -> "u" [] c = "V" -> "v" [] c = "W" -> "w" [] c = "X" -> "x"
       [] c = "Y" -> "y" [] c = "Z" -> "z"]

\* case folding used by re.IGNORECASE
Lower(c) == IF c \in UpperLetters THEN UpperToLower[c] ELSE c

\* the literal lit occurs in t at position i (ci: ignoring case)
LitAt(t, i, lit, ci) ==
  /\ i >= 1
  /\ i + Len(lit) - 1 <= Len(t)
  /\ \A k \in 1..Len(lit) :
       IF ci THEN Lower(t[i + k - 1]) = Lower(lit[k])
             ELSE t[i + k - 1] = lit[k]

\* re.search of a literal
HasLit(t, lit, ci) == \E i \in 1..Len(t) : LitAt(t, i, lit, ci)

\* first position at or after i that does not hold a whitespace character
RECURSIVE SkipSpaces(_, _)
SkipSpaces(t, i) ==
  IF i <= Len(t) /\ IsSpace(t[i]) THEN SkipSpaces(t, i + 1) ELSE i

\* re.search of  lit \s+ ...  where what follows \s+ can match empty
HasLitSpace(t, lit, ci) ==
  \E i \in 1..Len(t) :
     /\ LitAt(t, i, lit, ci)
     /\ i + Len(lit) <= Len(t)
     /\ IsSpace(t[i + Len(lit)])

\* re.search of  lit \s+ \w+ : \s+ is followed by one word character
HasLitSpaceWord(t, lit, ci) ==
  \E i \in 1..Len(t) :
     /\ LitAt(t, i, lit, ci)
     /\ i + Len(lit) <= Len(t)
     /\ IsSpace(t[i + Len(lit)])
     /\ LET j == SkipSpaces(t, i + Len(lit))
        IN  j <= Len(t) /\ IsWord(t[j])

\* re.search of  lit1 \s* lit2
HasLitSpacesLit(t, lit1, lit2, ci) ==
  \E i \in 1..Len(t) :
     /\ LitAt(t, i, lit1, ci)
     /\ LitAt(t, SkipSpaces(t, i + Len(lit1)), lit2, ci)

(***************************************************************************)
(* appears_to_be_mermaid_code                                              *)
(***************************************************************************)
\* the list mermaid_patterns, each searched with re.IGNORECASE
mermaid_patterns(code) ==
  <<HasLitSpace(code, <<"g", "r", "a", "p", "h">>, TRUE),
    HasLit(code, <<"s", "e", "q", "u", "e", "n", "c", "e",
                   "D", "i", "a", "g", "r", "a", "m">>, TRUE),
    HasLit(code, <<"c", "l", "a", "s", "s",
                   "D", "i", "a", "g", "r", "a", "m">>, TRUE),
    HasLit(code, <<"s", "t", "a", "t", "e", "D", "i", "a", "g", "r", "a", "m",
                   "-", "v", "2">>, TRUE),
    HasLit(code, <<"e", "r", "D", "i", "a", "g", "r", "a", "m">>, TRUE),
    HasLitSpacesLit(code, <<"p", "i", "e">>, <<"t", "i", "t", "l", "e">>, TRUE),
    HasLit(code, <<"g", "a", "n", "t", "t">>, TRUE),
    HasLitSpace(code, <<"f", "l", "o", "w", "c", "h", "a", "r", "t">>, TRUE),
    \/ HasLit(code, <<"-", "-", ">">>, TRUE)
    \/ HasLit(code, <<"-", "-", "x">>, TRUE)
    \/ HasLit(code, <<"=", "=", ">">>, TRUE),
    HasLit(code, <<"s", "u", "b", "g", "r", "a", "p", "h">>, TRUE),
    HasLit(code, <<"p", "a", "r", "t", "i", "c", "i", "p", "a", "n", "t">>, TRUE),
    HasLitSpaceWord(code, <<"c", "l", "a", "s", "s">>, TRUE),
    HasLitSpaceWord(code, <<"s", "t", "a", "t", "e">>, TRUE)>>

\* the exclusion searched with re.IGNORECASE like the patterns
python_patterns_ignorecase(code) ==
  \/ HasLitSpace(code, <<"i", "m", "p", "o", "r", "t">>, TRUE)
  \/ HasLitSpace(code, <<"d", "e", "f">>, TRUE)
  \/ HasLitSpacesLit(code, <<"c", "l", "a", "s", "s">>, <<":">>, TRUE)

\* re.search(r'import\s+|def\s+|class\s*:', code), case-sensitive
python_patterns(code) ==
  \/ HasLitSpace(code, <<"i", "m", "p", "o", "r", "t">>, FALSE)
  \/ HasLitSpace(code, <<"d", "e", "f">>, FALSE)
  \/ HasLitSpacesLit(code, <<"c", "l", "a", "s", "s">>, <<":">>, FALSE)

appears_to_be_mermaid_code(code) ==
  /\ \E k \in 1..Len(mermaid_patterns(code)) : mermaid_patterns(code)[k]
  /\ ~python_patterns(code)

(***************************************************************************)
(* extract_mermaid_code                                                    *)
(***************************************************************************)
RECURSIVE LStrip(_)
LStrip(t) ==
  IF t # <<>> /\ IsSpace(Head(t)) THEN LStrip(Tail(t)) ELSE t

RECURSIVE RStrip(_)
RStrip(t) ==
  IF t # <<>> /\ IsSpace(t[Len(t)])
  THEN RStrip(SubSeq(t, 1, Len(t) - 1))
  ELSE t

\* str.strip()
Strip(t) == RStrip(LStrip(t))

\* the three backquotes of a fence
Fence == <<"BQ", "BQ", "BQ">>

\* first position at or after i that does not hold a word character
RECURSIVE SkipWord(_, _)
SkipWord(t, i) ==
  IF i <= Len(t) /\ IsWord(t[i]) THEN SkipWord(t, i + 1) ELSE i

\* least position j >= i where the closing fence matches, 0 when there is none
RECURSIVE NextFence(_, _)
NextFence(t, i) ==
  IF i + 2 > Len(t) THEN 0
  ELSE IF LitAt(t, i, Fence, FALSE) THEN i
  ELSE NextFence(t, i + 1)

\* One attempt of  FENCE(?:\w*\n)?(.*?)FENCE  (re.DOTALL) at position i.
\* The optional group is tried first (greedy \w*, which cannot give back
\* characters to \n), then skipped on backtracking; .*? takes the nearest
\* closing fence.  The result is [ok, group, next].
BlockAt(t, i) ==
  LET p   == SkipWord(t, i + 3)
      tag == p <= Len(t) /\ t[p] = "\n"
      j1  == IF tag THEN NextFence(t, p + 1) ELSE 0
      j2  == NextFence(t, i + 3)
  IN  IF ~LitAt(t, i, Fence, FALSE) THEN [ok |-> FALSE, group |-> <<>>, next |-> 0]
      ELSE IF j1 # 0 THEN [ok |-> TRUE, group |-> SubSeq(t, p + 1, j1 - 1), next |-> j1 + 3]
      ELSE IF j2 # 0 THEN [ok |-> TRUE, group |-> SubSeq(t, i + 3, j2 - 1), next |-> j2 + 3]
      ELSE [ok |-> FALSE, group |-> <<>>, next |-> 0]

\* re.findall: the groups of the non-overlapping matches, left to right
RECURSIVE code_block_matches(_, _)
code_block_matches(t, i) ==
  IF i > Len(t) THEN <<>>
  ELSE LET m == BlockAt(t, i)
       IN  IF m.ok THEN <<m.group>> \o code_block_matches(t, m.next)
           ELSE code_block_matches(t, i + 1)

\* the last code block instead of the first
extract_mermaid_code_last(text) ==
  LET matches == code_block_matches(text, 1)
  IN  IF matches # <<>> THEN Strip(matches[Len(matches)]) ELSE Strip(text)

extract_mermaid_code(text) ==
  LET matches == code_block_matches(text, 1)
  IN  IF matches # <<>> THEN Strip(matches[1]) ELSE Strip(text)

(***************************************************************************)
(* sanitize_markdown_in_labels                                             *)
(***************************************************************************)
\* first position at or after i that does not hold a digit
RECURSIVE SkipDigits(_, _)
SkipDigits(t, i) ==
  IF i <= Len(t) /\ IsDigit(t[i]) THEN SkipDigits(t, i + 1) ELSE i

\* re.sub(r'(\d+)\. ', r'\1: ', label), scanning from position i
RECURSIVE SubNumbered(_, _)
SubNumbered(t, i) ==
  IF i > Len(t) THEN <<>>
  ELSE LET k == SkipDigits(t, i)
       IN  IF k > i /\ LitAt(t, k, <<".", " ">>, FALSE)
           THEN SubSeq(t, i, k - 1) \o <<":", " ">> \o SubNumbered(t, k + 2)
           ELSE <<t[i]>> \o SubNumbered(t, i + 1)

\* re.sub(r'^- ', '– ', label): ^ is the start of the label only
SubLeadingDash(t) ==
  IF LitAt(t, 1, <<"-", " ">>, FALSE)
  THEN <<"ENDASH", " ">> \o SubSeq(t, 3, Len(t))
  ELSE t

\* str.replace / re.sub of a literal: non-overlapping, left to right
RECURSIVE ReplaceLit(_, _, _, _)
ReplaceLit(t, i, old, new) ==
  IF i > Len(t) THEN <<>>
  ELSE IF LitAt(t, i, old, FALSE)
  THEN new \o ReplaceLit(t, i + Len(old), old, new)
  ELSE <<t[i]>> \o ReplaceLit(t, i + 1, old, new)

\* the line-break tags replaced by a newline character instead of the two
\* characters backslash and n
sanitize_label_newline(label) ==
  LET l1 == SubNumbered(label, 1)
      l2 == SubLeadingDash(l1)
      l3 == ReplaceLit(l2, 1, <<"\n", "-", " ">>, <<"\n", "ENDASH", " ">>)
      l4 == ReplaceLit(l3, 1, <<"<", "b", "r", "/", ">">>, <<"\n">>)
      l5 == ReplaceLit(l4, 1, <<"<", "b", "r", ">">>, <<"\n">>)
  IN  <<"[", "\"">> \o l5 \o <<"\"", "]">>

\* the replacement function applied to group 1 of a label match
sanitize_label(label) ==
  LET l1 == SubNumbered(label, 1)
      l2 == SubLeadingDash(l1)
      l3 == ReplaceLit(l2, 1, <<"\n", "-", " ">>, <<"\n", "ENDASH", " ">>)
      l4 == ReplaceLit(l3, 1, <<"<", "b", "r", "/", ">">>, <<"\\", "n">>)
      l5 == ReplaceLit(l4, 1, <<"<", "b", "r", ">">>, <<"\\", "n">>)
  IN  <<"[", "\"">> \o l5 \o <<"\"", "]">>

\* first position at or after i that holds a double quote (Len(t)+1 if none)
RECURSIVE SkipNonQuote(_, _)
SkipNonQuote(t, i) ==
  IF i <= Len(t) /\ t[i] # "\"" THEN SkipNonQuote(t, i + 1) ELSE i

\* One attempt of  \["([^"]+)"\]  at position i: [^"]+ runs to the next
\* double quote and cannot give back characters.  The result is the
\* position of the closing quote, 0 when the pattern does not match at i.
LabelAt(t, i) ==
  LET j == SkipNonQuote(t, i + 2)
  IN  IF /\ LitAt(t, i, <<"[", "\"">>, FALSE)
         /\ j > i + 2
         /\ LitAt(t, j, <<"\"", "]">>, FALSE)
      THEN j
      ELSE 0

\* re.sub(r'\["([^"]+)"\]', sanitize_label, code), scanning from position i
RECURSIVE SubLabels(_, _)
SubLabels(t, i) ==
  IF i > Len(t) THEN <<>>
  ELSE LET j == LabelAt(t, i)
       IN  IF j # 0
           THEN sanitize_label(SubSeq(t, i + 2, j - 1)) \o SubLabels(t, j + 2)
           ELSE <<t[i]>> \o SubLabels(t, i + 1)

\* the numbered-marker substitution applied to the whole source
sanitize_markdown_in_labels_everywhere(code) ==
  SubLabels(SubNumbered(code, 1), 1)

sanitize_markdown_in_labels(code) == SubLabels(code, 1)

(***************************************************************************)
(* handle_call_tool: the state of one server process                       *)
(***************************************************************************)
VARIABLES
  pc,                \* position of the handler
  name,              \* tool name of the request
  arguments,         \* arguments of the request
  extracted_code,    \* local extracted_code
  tmpdir,            \* the TemporaryDirectory: "none", "exists", "removed"
  tmp_files,         \* names of the files inside the temporary directory
  mmdc_calls,        \* number of times the renderer was started
  proc,              \* outcome of subprocess.run on the renderer
  file_content,      \* bytes read from the renderer's output file
  durable,           \* file at permanent_path (Absent when there is none)
  durable_at_start,  \* that file when the request arrived
  writes,            \* number of times permanent_path was opened for writing
  actual_size,       \* local actual_size (-1 before it is assigned)
  result,            \* what the handler returned or raised
  text,              \* input of a text helper
  out1,              \* the helper applied once
  out2,              \* the helper applied to out1
  step,              \* position of the text-helper run
  looks_valid        \* value returned by appears_to_be_mermaid_code

vars ==
  <<pc, name, arguments, extracted_code, tmpdir, tmp_files, mmdc_calls, proc,
    file_content, durable, durable_at_start, writes, actual_size, result,
    text, out1, out2, step, looks_valid>>

handlerVars ==
  <<pc, name, arguments, extracted_code, tmpdir, tmp_files, mmdc_calls, proc,
    file_content, durable, durable_at_start, writes, actual_size, result>>

helperVars == <<text, out1, out2, step, looks_valid>>

\* a text local that has not been assigned
Unset == <<"UNSET">>

\* no file at the path
Absent == <<"ABSENT">>

NoResult == [kind |-> "none", via |-> "none", text |-> <<>>]

NoProc == [state |-> "none", returncode |-> 0, stderr |-> <<>>, output |-> Absent]

\* a TextContent returned to the caller
Returned(kind, t) == [kind |-> kind, via |-> "return", text |-> t]

\* an exception that leaves the handler
Raised(kind) == [kind |-> kind, via |-> "raise", text |-> <<>>]

(***************************************************************************)
(* The requests.                                                           *)
(***************************************************************************)
DefFoo ==
  <<"d", "e", "f", " ", "f", "o", "o", "(", ")", ":", " ", "p", "a", "s", "s">>

FencedFlowchart ==
  Fence \o <<"f", "l", "o", "w", "c", "h", "a", "r", "t", " ", "T", "D", "\n",
             "A", "-", "-", ">", "B", "\n">> \o Fence

LabelledEdge ==
  <<"A", "[", "\"", "1", ".", " ", "x", "\"", "]", " ", "-", "-", ">", " ", "B">>

\* values of mermaid_code
Codes ==
  {<<>>, DefFoo, FencedFlowchart, LabelledEdge,
   <<"h", "e", "l", "l", "o">>,
   <<" ", "\n">>,
   Fence \o <<"\n">> \o Fence}

FileNames == {<<>>, <<"d">>}

Formats == {"svg", "png", "pdf"}

Themes == {"default", "dark", "forest"}

Backgrounds == {"transparent", "white"}

\* arguments is None or {}: every arguments.get falls back to its default
NoArguments ==
  [given |-> FALSE, mermaid_code |-> <<>>, file_name |-> <<>>,
   format |-> "svg", theme |-> "default", backgroundColor |-> "transparent"]

Arguments ==
  {NoArguments} \cup
  [given : {TRUE}, mermaid_code : Codes, file_name : FileNames,
   format : Formats, theme : Themes, backgroundColor : Backgrounds]

ToolNames == {"generate_diagram", "validate_mermaid", "other_tool"}

(***************************************************************************)
(* What the renderer and the file system can do.                           *)
(***************************************************************************)
WhiteDecl ==
  <<"b", "a", "c", "k", "g", "r", "o", "u", "n", "d", "-", "c", "o", "l", "o",
    "r", ":", " ", "w", "h", "i", "t", "e", ";">>

TransparentDecl ==
  <<"b", "a", "c", "k", "g", "r", "o", "u", "n", "d", "-", "c", "o", "l", "o",
    "r", ":", " ", "t", "r", "a", "n", "s", "p", "a", "r", "e", "n", "t", ";">>

SvgWhite == <<"<", "s", "v", "g", " ", "s", "t", "y", "l", "e", "=", "\"">>
            \o WhiteDecl \o <<"\"", ">">>

SvgPlain == <<"<", "s", "v", "g", ">">>

\* bytes that are not valid UTF-8
RawBytes == <<"0x89", "P", "N", "G", "0xFF">>

\* contents the renderer can leave in its output file
Artifacts == {SvgWhite, SvgPlain, RawBytes}

OldFile == <<"o", "l", "d">>

\* result.stderr of the renderer
StderrTexts ==
  {<<>>, <<"E", "r", "r", "o", "r", ":", " ", "p", "a", "r", "s", "e", "\n">>,
   <<" ", "x", " ">>}

\* outcomes of subprocess.run(command, ..., timeout=30)
ProcOutcomes ==
  {[state |-> "timeout", returncode |-> 0, stderr |-> <<>>, output |-> o] :
      o \in {Absent, SvgPlain}}
  \cup {[state |-> "oserror", returncode |-> 0, stderr |-> <<>>, output |-> Absent]}
  \cup [state : {"returned"}, returncode : {0, 1}, stderr : StderrTexts,
        output : {Absent} \cup Artifacts]

\* bytes.decode('utf-8') raises on these
IsUtf8(bytes) == \A k \in 1..Len(bytes) : bytes[k] \notin {"0x89", "0xFF"}

\* a file cut short
Truncated(bytes) == SubSeq(bytes, 1, Len(bytes) - 1)

RenderFailedPrefix ==
  <<"U", "P", "D", "A", "T", "E", "D", " ", "V", "E", "R", "S", "I", "O", "N",
    ":", " ", "F", "a", "i", "l", "e", "d", " ", "t", "o", " ", "g", "e", "n",
    "e", "r", "a", "t", "e", " ", "d", "i", "a", "g", "r", "a", "m", ".", " ",
    "E", "r", "r", "o", "r", ":", " ">>

(***************************************************************************)
(* handle_call_tool                                                        *)
(***************************************************************************)
\* a directory made with mkdtemp and removed only on the normal way out
TemporaryDirectory_exit_leak(how) ==
  IF how = "raise" THEN "exists" ELSE "removed"

\* TemporaryDirectory.__exit__: the with block is left by a return or by an
\* exception (how), and the directory is removed with its contents
TemporaryDirectory_exit(how) == "removed"

\* the handler ends with result r; the with block, when entered, is left
End(r, how) ==
  /\ result' = r
  /\ pc' = "done"
  /\ tmpdir' = IF tmpdir = "exists" THEN TemporaryDirectory_exit(how) ELSE tmpdir
  /\ tmp_files' = {}

\* the generic clause placed first: it catches TimeoutExpired too
except_clause_generic(exc) == Returned("UnexpectedError", <<>>)

\* the except clauses after the with block: the result for an exception
except_clause(exc) ==
  IF exc = "TimeoutExpired"
  THEN Returned("RenderTimeout", <<>>)
  ELSE Returned("UnexpectedError", <<>>)

\* a request arrives
Receive ==
  /\ pc = "idle"
  /\ \E n \in ToolNames, a \in Arguments :
       /\ name' = n
       /\ arguments' = a
       /\ pc' = CASE n = "generate_diagram" -> "gen_arguments"
                  [] n = "validate_mermaid" -> "val_arguments"
                  [] OTHER -> "unknown_tool"
  /\ durable_at_start' = durable
  /\ UNCHANGED <<extracted_code, tmpdir, tmp_files, mmdc_calls, proc,
                 file_content, durable, writes, actual_size, result>>
  /\ UNCHANGED helperVars

\* missing_input without the check of file_name
missing_input_nameless(args) ==
  \/ ~args.given
  \/ args.mermaid_code = <<>>

\* the conditions of the three ValueErrors of generate_diagram
missing_input(args) ==
  \/ ~args.given
  \/ args.mermaid_code = <<>>
  \/ args.file_name = <<>>

\* generate_diagram: the three ValueErrors
GenCheckArguments ==
  /\ pc = "gen_arguments"
  /\ IF missing_input(arguments)
     THEN End(Raised("MissingInput"), "raise")
     ELSE /\ pc' = "gen_extract"
          /\ UNCHANGED <<result, tmpdir, tmp_files>>
  /\ UNCHANGED <<name, arguments, extracted_code, mmdc_calls, proc,
                 file_content, durable, durable_at_start, writes, actual_size>>
  /\ UNCHANGED helperVars

GenExtract ==
  /\ pc = "gen_extract"
  /\ extracted_code' = extract_mermaid_code(arguments.mermaid_code)
  /\ pc' = "gen_sanitize"
  /\ UNCHANGED <<name, arguments, tmpdir, tmp_files, mmdc_calls, proc,
                 file_content, durable, durable_at_start, writes, actual_size,
                 result>>
  /\ UNCHANGED helperVars

GenSanitize ==
  /\ pc = "gen_sanitize"
  /\ extracted_code' = sanitize_markdown_in_labels(extracted_code)
  /\ pc' = "gen_appears"
  /\ UNCHANGED <<name, arguments, tmpdir, tmp_files, mmdc_calls, proc,
                 file_content, durable, durable_at_start, writes, actual_size,
                 result>>
  /\ UNCHANGED helperVars

\* the heuristic check: a negative verdict returns the warning
GenAppears ==
  /\ pc = "gen_appears"
  /\ IF ~appears_to_be_mermaid_code(extracted_code)
     THEN End(Returned("Warning", <<>>), "return")
     ELSE /\ pc' = "gen_tmpdir"
          /\ UNCHANGED <<result, tmpdir, tmp_files>>
  /\ UNCHANGED <<name, arguments, extracted_code, mmdc_calls, proc,
                 file_content, durable, durable_at_start, writes, actual_size>>
  /\ UNCHANGED helperVars

\* with tempfile.TemporaryDirectory(): the directory is made, or the
\* constructor raises into the catch-all
GenTemporaryDirectory ==
  /\ pc = "gen_tmpdir"
  /\ \/ /\ tmpdir' = "exists"
        /\ pc' = "gen_input"
        /\ UNCHANGED <<result, tmp_files>>
     \/ End(except_clause("Exception"), "raise")
  /\ UNCHANGED <<name, arguments, extracted_code, mmdc_calls, proc,
                 file_content, durable, durable_at_start, writes, actual_size>>
  /\ UNCHANGED helperVars

\* input.mmd is written, or the write raises into the catch-all
GenWriteInput ==
  /\ pc = "gen_input"
  /\ \/ /\ tmp_files' = tmp_files \cup {"input.mmd"}
        /\ pc' = "gen_theme"
        /\ UNCHANGED <<result, tmpdir>>
     \/ End(except_clause("Exception"), "raise")
  /\ UNCHANGED <<name, arguments, extracted_code, mmdc_calls, proc,
                 file_content, durable, durable_at_start, writes, actual_size>>
  /\ UNCHANGED helperVars

\* default and dark write config.json, any other theme is passed with -t
GenTheme ==
  /\ pc = "gen_theme"
  /\ tmp_files' = IF arguments.theme \in {"default", "dark"}
                  THEN tmp_files \cup {"config.json"}
                  ELSE tmp_files
  /\ pc' = "gen_run"
  /\ UNCHANGED <<name, arguments, extracted_code, tmpdir, mmdc_calls, proc,
                 file_content, durable, durable_at_start, writes, actual_size,
                 result>>
  /\ UNCHANGED helperVars

\* subprocess.run(command, ..., timeout=30)
GenRun ==
  /\ pc = "gen_run"
  /\ \E o \in ProcOutcomes :
       /\ proc' = o
       /\ mmdc_calls' = mmdc_calls + 1
       /\ CASE o.state = "timeout" ->
                 End(except_clause("TimeoutExpired"), "raise")
            [] o.state = "oserror" ->
                 End(except_clause("Exception"), "raise")
            [] OTHER ->
                 /\ pc' = "gen_returncode"
                 /\ tmp_files' = IF o.output # Absent
                                 THEN tmp_files \cup {"output"}
                                 ELSE tmp_files
                 /\ UNCHANGED <<result, tmpdir>>
  /\ UNCHANGED <<name, arguments, extracted_code, file_content, durable,
                 durable_at_start, writes, actual_size>>
  /\ UNCHANGED helperVars

\* the text with stderr stripped
RenderFailedText_stripped(stderr) == RenderFailedPrefix \o Strip(stderr)

\* the text returned for a non-zero exit status
RenderFailedText(stderr) == RenderFailedPrefix \o stderr

\* a test that only sees a renderer killed by a signal
renderer_failed_signal(p) == p.returncode < 0

\* result.returncode != 0
renderer_failed(p) == p.returncode # 0

GenReturncode ==
  /\ pc = "gen_returncode"
  /\ IF renderer_failed(proc)
     THEN End(Returned("RenderFailed", RenderFailedText(proc.stderr)), "return")
     ELSE /\ pc' = "gen_exists"
          /\ UNCHANGED <<result, tmpdir, tmp_files>>
  /\ UNCHANGED <<name, arguments, extracted_code, mmdc_calls, proc,
                 file_content, durable, durable_at_start, writes, actual_size>>
  /\ UNCHANGED helperVars

\* os.path.exists(output_path): read the file, or report that it is missing
GenOutputExists ==
  /\ pc = "gen_exists"
  /\ IF "output" \in tmp_files
     THEN /\ file_content' = proc.output
          /\ pc' = "gen_save"
          /\ UNCHANGED <<result, tmpdir, tmp_files>>
     ELSE /\ End(Returned("OutputMissing", <<>>), "return")
          /\ UNCHANGED file_content
  /\ UNCHANGED <<name, arguments, extracted_code, mmdc_calls, proc, durable,
                 durable_at_start, writes, actual_size>>
  /\ UNCHANGED helperVars

\* open(permanent_path, "wb") and f.write(file_content): the open raises,
\* the write raises part way, or the file is written
GenSave ==
  /\ pc = "gen_save"
  /\ \/ /\ End(Returned("PersistFailed", <<>>), "return")
        /\ UNCHANGED <<durable, writes>>
     \/ /\ file_content # <<>>
        /\ durable' = Truncated(file_content)
        /\ writes' = writes + 1
        /\ End(Returned("PersistFailed", <<>>), "return")
     \/ /\ durable' = file_content
        /\ writes' = writes + 1
        /\ pc' = "gen_verify"
        /\ UNCHANGED <<result, tmpdir, tmp_files>>
  /\ UNCHANGED <<name, arguments, extracted_code, mmdc_calls, proc,
                 file_content, durable_at_start, actual_size>>
  /\ UNCHANGED helperVars

\* another process removes or cuts the file between the write and the check
ExternalChange ==
  /\ pc = "gen_verify"
  /\ durable = file_content
  /\ durable' \in {Absent, Truncated(file_content)}
  /\ UNCHANGED <<pc, name, arguments, extracted_code, tmpdir, tmp_files,
                 mmdc_calls, proc, file_content, durable_at_start, writes,
                 actual_size, result>>
  /\ UNCHANGED helperVars

\* os.path.getsize
getsize(path_content) == Len(path_content)

\* a check that only rejects an empty copy
size_mismatch_empty(size, content) == size = 0 /\ Len(content) # 0

\* the comparison that raises "File size mismatch"
size_mismatch(size, content) == size # Len(content)

\* os.path.exists(permanent_path), os.path.getsize(permanent_path)
GenVerify ==
  /\ pc = "gen_verify"
  /\ IF durable = Absent
     THEN /\ End(Returned("PersistFailed", <<>>), "return")
          /\ UNCHANGED actual_size
     ELSE /\ actual_size' = getsize(durable)
          /\ IF size_mismatch(actual_size', file_content)
             THEN End(Returned("PersistFailed", <<>>), "return")
             ELSE /\ pc' = "gen_open"
                  /\ UNCHANGED <<result, tmpdir, tmp_files>>
  /\ UNCHANGED <<name, arguments, extracted_code, mmdc_calls, proc,
                 file_content, durable, durable_at_start, writes>>
  /\ UNCHANGED helperVars

\* platform.system() == "Darwin": subprocess.run(["open", ...], check=False)
\* is skipped elsewhere, runs, or raises inside the try block
GenAutoOpen ==
  /\ pc = "gen_open"
  /\ \/ /\ pc' = "gen_format"
        /\ UNCHANGED <<result, tmpdir, tmp_files>>
     \/ End(Returned("PersistFailed", <<>>), "return")
  /\ UNCHANGED <<name, arguments, extracted_code, mmdc_calls, proc,
                 file_content, durable, durable_at_start, writes, actual_size>>
  /\ UNCHANGED helperVars

\* the replacement looking for the declaration written without its space
svg_replace_nospace(svg) ==
  ReplaceLit(svg, 1,
             <<"b", "a", "c", "k", "g", "r", "o", "u", "n", "d", "-", "c", "o",
               "l", "o", "r", ":", "w", "h", "i", "t", "e", ";">>,
             TransparentDecl)

\* svg_content after the transparent-background replacement
svg_replace(svg) == ReplaceLit(svg, 1, WhiteDecl, TransparentDecl)

\* output_format == "svg"
GenSvg ==
  /\ pc = "gen_format"
  /\ arguments.format = "svg"
  /\ IF ~IsUtf8(file_content)
     THEN /\ End(except_clause("Exception"), "raise")
          /\ UNCHANGED <<durable, writes>>
     ELSE IF arguments.backgroundColor = "transparent"
     THEN \/ /\ durable' = svg_replace(file_content)
             /\ writes' = writes + 1
             /\ End(Returned("Succeeded", svg_replace(file_content)), "return")
          \/ /\ End(except_clause("Exception"), "raise")
             /\ UNCHANGED <<durable, writes>>
     ELSE /\ End(Returned("Succeeded", file_content), "return")
          /\ UNCHANGED <<durable, writes>>
  /\ UNCHANGED <<name, arguments, extracted_code, mmdc_calls, proc,
                 file_content, durable_at_start, actual_size>>
  /\ UNCHANGED helperVars

\* png and pdf: the bytes are not decoded; the returned text carries the
\* path, the size and a base64 copy, which are not modelled
GenBinary ==
  /\ pc = "gen_format"
  /\ arguments.format # "svg"
  /\ End(Returned("Succeeded", <<>>), "return")
  /\ UNCHANGED <<name, arguments, extracted_code, mmdc_calls, proc,
                 file_content, durable, durable_at_start, writes, actual_size>>
  /\ UNCHANGED helperVars

\* validate_mermaid: the ValueError and the empty-input verdict
ValCheckArguments ==
  /\ pc = "val_arguments"
  /\ IF ~arguments.given
     THEN End(Raised("MissingInput"), "raise")
     ELSE IF arguments.mermaid_code = <<>>
     THEN End(Returned("EmptyInput", <<>>), "return")
     ELSE /\ pc' = "val_extract"
          /\ UNCHANGED <<result, tmpdir, tmp_files>>
  /\ UNCHANGED <<name, arguments, extracted_code, mmdc_calls, proc,
                 file_content, durable, durable_at_start, writes, actual_size>>
  /\ UNCHANGED helperVars

\* extraction, and the empty-block verdict
ValExtract ==
  /\ pc = "val_extract"
  /\ extracted_code' = extract_mermaid_code(arguments.mermaid_code)
  /\ IF Strip(extracted_code') = <<>>
     THEN End(Returned("EmptyInput", <<>>), "return")
     ELSE /\ pc' = "val_appears"
          /\ UNCHANGED <<result, tmpdir, tmp_files>>
  /\ UNCHANGED <<name, arguments, mmdc_calls, proc, file_content, durable,
                 durable_at_start, writes, actual_size>>
  /\ UNCHANGED helperVars

\* the verdicts exchanged
validate_verdict_inverted(code) ==
  IF appears_to_be_mermaid_code(code) THEN "LooksInvalid" ELSE "LooksValid"

\* the verdict of the heuristic
validate_verdict(code) ==
  IF appears_to_be_mermaid_code(code) THEN "LooksValid" ELSE "LooksInvalid"

ValAppears ==
  /\ pc = "val_appears"
  /\ End(Returned(validate_verdict(extracted_code), <<>>), "return")
  /\ UNCHANGED <<name, arguments, extracted_code, mmdc_calls, proc,
                 file_content, durable, durable_at_start, writes, actual_size>>
  /\ UNCHANGED helperVars

\* raise ValueError(f"Unknown tool: {name}")
UnknownTool ==
  /\ pc = "unknown_tool"
  /\ End(Raised("UnknownTool"), "raise")
  /\ UNCHANGED <<name, arguments, extracted_code, mmdc_calls, proc,
                 file_content, durable, durable_at_start, writes, actual_size>>
  /\ UNCHANGED helperVars

\* the handler has answered; its locals go away and the server waits for
\* the next request.  The file at permanent_path stays.
Finish ==
  /\ pc = "done"
  /\ pc' = "idle"
  /\ name' = "none"
  /\ arguments' = NoArguments
  /\ extracted_code' = Unset
  /\ tmpdir' = "none"
  /\ tmp_files' = {}
  /\ mmdc_calls' = 0
  /\ proc' = NoProc
  /\ file_content' = Unset
  /\ writes' = 0
  /\ actual_size' = -1
  /\ result' = NoResult
  /\ UNCHANGED <<durable, durable_at_start>>
  /\ UNCHANGED helperVars

Init ==
  /\ pc = "idle"
  /\ name = "none"
  /\ arguments = NoArguments
  /\ extracted_code = Unset
  /\ tmpdir = "none"
  /\ tmp_files = {}
  /\ mmdc_calls = 0
  /\ proc = NoProc
  /\ file_content = Unset
  /\ durable \in {Absent, OldFile}
  /\ durable_at_start = durable
  /\ writes = 0
  /\ actual_size = -1
  /\ result = NoResult
  /\ text = <<>>
  /\ out1 = Unset
  /\ out2 = Unset
  /\ looks_valid = FALSE
  /\ step = "none"

Next ==
  \/ Receive
  \/ GenCheckArguments
  \/ GenExtract
  \/ GenSanitize
  \/ GenAppears
  \/ GenTemporaryDirectory
  \/ GenWriteInput
  \/ GenTheme
  \/ GenRun
  \/ GenReturncode
  \/ GenOutputExists
  \/ GenSave
  \/ ExternalChange
  \/ GenVerify
  \/ GenAutoOpen
  \/ GenSvg
  \/ GenBinary
  \/ ValCheckArguments
  \/ ValExtract
  \/ ValAppears
  \/ UnknownTool
  \/ Finish

Spec == Init /\ [][Next]_vars

(***************************************************************************)
(* Properties of generate_diagram and validate_mermaid, checked under Spec *)
(***************************************************************************)
\* the handler has answered a generate_diagram request
GenDone == pc = "done" /\ name = "generate_diagram"

\* the handler has answered a validate_mermaid request
ValDone == pc = "done" /\ name = "validate_mermaid"

\* the terminal states of a render
RenderTerminal ==
  {"Succeeded", "RenderTimeout", "RenderFailed", "OutputMissing", "PersistFailed"}

\* the request lacks its source or its output name
EmptySourceOrName ==
  \/ ~arguments.given
  \/ arguments.mermaid_code = <<>>
  \/ arguments.file_name = <<>>

\* the heuristic is false on the extracted and sanitized source of a request
\* that has a source and an output name
HeuristicRejects ==
  /\ ~EmptySourceOrName
  /\ ~appears_to_be_mermaid_code(
        sanitize_markdown_in_labels(extract_mermaid_code(arguments.mermaid_code)))

\* C1: when the heuristic is false on the extracted and sanitized source of
\* a generate_diagram request with a source and an output name, the renderer
\* is still started and the request ends in a terminal state of the render.
C1_RenderProceedsDespiteWarning ==
  (GenDone /\ HeuristicRejects) =>
     /\ mmdc_calls >= 1
     /\ result.kind \in RenderTerminal

\* C2: a generate_diagram request with an empty source or an empty output
\* name is rejected by a raised MissingInput before extraction runs; no
\* temporary directory is made, the renderer is not started and the durable
\* file is not written.
C2_MissingInputRejected ==
  (GenDone /\ EmptySourceOrName) =>
     /\ result = Raised("MissingInput")
     /\ extracted_code = Unset
     /\ tmpdir = "none"
     /\ mmdc_calls = 0
     /\ writes = 0
     /\ durable = durable_at_start

\* C2 witness: a request with a source and no output name was rejected
C2_Witness ==
  /\ GenDone
  /\ arguments.given
  /\ arguments.mermaid_code = FencedFlowchart
  /\ arguments.file_name = <<>>
  /\ result.kind = "MissingInput"

\* C3: when the handler has answered, the temporary directory it made is
\* gone with its contents, whatever the way out.
C3_TmpdirRemoved ==
  pc \in {"done", "idle"} => (tmpdir # "exists" /\ tmp_files = {})

\* C3 witness: the directory was made, an exception left the with block,
\* and the directory is removed
C3_Witness ==
  /\ GenDone
  /\ tmpdir = "removed"
  /\ result.kind \in {"UnexpectedError", "RenderTimeout"}

C5_TimeoutEnforced ==
  (GenDone /\ proc.state = "timeout") =>
     /\ result = Returned("RenderTimeout", <<>>)
     /\ writes = 0
     /\ durable = durable_at_start
     /\ mmdc_calls = 1

\* C5 witness: the renderer timed out having left a partial output file
C5_Witness ==
  /\ GenDone
  /\ proc.state = "timeout"
  /\ proc.output # Absent
  /\ result.kind = "RenderTimeout"

\* C6: a non-zero exit status of the renderer gives RenderFailed as a
\* returned text that ends with the renderer's stderr text, character for
\* character, whether or not an output file exists.
C6_RenderFailedCarriesStderr ==
  (GenDone /\ proc.state = "returned" /\ proc.returncode # 0) =>
     /\ result.kind = "RenderFailed"
     /\ result.via = "return"
     /\ Len(result.text) = Len(RenderFailedPrefix) + Len(proc.stderr)
     /\ SubSeq(result.text, Len(RenderFailedPrefix) + 1, Len(result.text))
          = proc.stderr

\* C6 witness: non-zero exit with an output file and a stderr text that
\* stripping would change
C6_Witness ==
  /\ GenDone
  /\ proc.state = "returned"
  /\ proc.returncode # 0
  /\ proc.output # Absent
  /\ Strip(proc.stderr) # proc.stderr
  /\ result.kind = "RenderFailed"

\* C7: validate_mermaid answers a request that carries a text with exactly
\* one verdict: EmptyInput when the text or the extracted code is empty,
\* otherwise LooksValid or LooksInvalid as the heuristic says of the
\* extracted, unsanitized code; "" gives EmptyInput and "def foo(): pass"
\* gives LooksInvalid; no temporary directory, renderer start or file write.
C7_ValidateVerdict ==
  (ValDone /\ arguments.given) =>
     LET code      == arguments.mermaid_code
         extracted == extract_mermaid_code(code)
     IN  /\ result.via = "return"
         /\ result.kind =
              IF code = <<>> \/ extracted = <<>> THEN "EmptyInput"
              ELSE IF appears_to_be_mermaid_code(extracted) THEN "LooksValid"
              ELSE "LooksInvalid"
         /\ code = <<>> => result.kind = "EmptyInput"
         /\ code = DefFoo => result.kind = "LooksInvalid"
         /\ code = FencedFlowchart => result.kind = "LooksValid"
         /\ tmpdir = "none"
         /\ tmp_files = {}
         /\ mmdc_calls = 0
         /\ writes = 0
         /\ durable = durable_at_start

\* C7 witness: "def foo(): pass" was validated
C7_Witness ==
  /\ ValDone
  /\ arguments.given
  /\ arguments.mermaid_code = DefFoo
  /\ result.kind = "LooksInvalid"

(***************************************************************************)
(* The text helpers on their own: the input is drawn from the texts made   *)
(* of a bounded number of pieces, and the helper is applied to it.         *)
(***************************************************************************)
\* most pieces in an input of extract_mermaid_code
MaxExtractChunks == 6

\* most pieces in an input of sanitize_markdown_in_labels
MaxSanitizeChunks == 5

RECURSIVE Flatten(_)
Flatten(ss) == IF ss = <<>> THEN <<>> ELSE Head(ss) \o Flatten(Tail(ss))

\* the texts made of at most n pieces
TextsOf(chunks, n) ==
  {Flatten(ss) : ss \in UNION {[1..k -> chunks] : k \in 0..n}}

ExtractChunks == {Fence, <<"BQ">>, <<"a">>, <<"\n">>, <<" ">>, <<"-">>}

SanitizeChunks ==
  {<<"[", "\"">>, <<"\"", "]">>, <<"1">>, <<".", " ">>, <<"-", " ">>,
   <<"\n">>, <<"<", "b", "r", ">">>, <<"<", "b", "r", "/", ">">>,
   <<"\"">>}

\* the handler is idle while a helper is exercised
HandlerIdle ==
  /\ pc = "idle"
  /\ name = "none"
  /\ arguments = NoArguments
  /\ extracted_code = Unset
  /\ tmpdir = "none"
  /\ tmp_files = {}
  /\ mmdc_calls = 0
  /\ proc = NoProc
  /\ file_content = Unset
  /\ durable = Absent
  /\ durable_at_start = Absent
  /\ writes = 0
  /\ actual_size = -1
  /\ result = NoResult

InitExtract ==
  /\ HandlerIdle
  /\ text \in TextsOf(ExtractChunks, MaxExtractChunks)
  /\ out1 = Unset
  /\ out2 = Unset
  /\ looks_valid = FALSE
  /\ step = "input"

ApplyExtract ==
  /\ step = "input"
  /\ out1' = extract_mermaid_code(text)
  /\ step' = "extracted"
  /\ UNCHANGED <<text, out2, looks_valid>>
  /\ UNCHANGED handlerVars

NextExtract == ApplyExtract

SpecExtract == InitExtract /\ [][NextExtract]_vars

InitSanitize ==
  /\ HandlerIdle
  /\ text \in TextsOf(SanitizeChunks, MaxSanitizeChunks)
  /\ out1 = Unset
  /\ out2 = Unset
  /\ looks_valid = FALSE
  /\ step = "input"

ApplySanitize ==
  /\ step = "input"
  /\ out1' = sanitize_markdown_in_labels(text)
  /\ step' = "once"
  /\ UNCHANGED <<text, out2, looks_valid>>
  /\ UNCHANGED handlerVars

ApplySanitizeAgain ==
  /\ step = "once"
  /\ out2' = sanitize_markdown_in_labels(out1)
  /\ step' = "twice"
  /\ UNCHANGED <<text, out1, looks_valid>>
  /\ UNCHANGED handlerVars

NextSanitize == ApplySanitize \/ ApplySanitizeAgain

SpecSanitize == InitSanitize /\ [][NextSanitize]_vars

\* most pieces in an input of appears_to_be_mermaid_code
MaxHeuristicChunks == 4

HeuristicChunks ==
  {<<"s", "e", "q", "u", "e", "n", "c", "e", "D", "i", "a", "g", "r", "a", "m">>,
   <<"f", "l", "o", "w", "c", "h", "a", "r", "t", " ", "T", "D">>,
   <<"i", "m", "p", "o", "r", "t", " ">>,
   <<"I", "m", "p", "o", "r", "t", " ">>,
   <<"d", "e", "f", " ">>,
   <<"c", "l", "a", "s", "s">>,
   <<":">>,
   <<"-", "-", ">">>,
   <<"\n">>,
   <<"x">>}

InitHeuristic ==
  /\ HandlerIdle
  /\ text \in TextsOf(HeuristicChunks, MaxHeuristicChunks)
  /\ out1 = Unset
  /\ out2 = Unset
  /\ looks_valid = FALSE
  /\ step = "input"

ApplyHeuristic ==
  /\ step = "input"
  /\ looks_valid' = appears_to_be_mermaid_code(text)
  /\ step' = "judged"
  /\ UNCHANGED <<text, out1, out2>>
  /\ UNCHANGED handlerVars

NextHeuristic == ApplyHeuristic

SpecHeuristic == InitHeuristic /\ [][NextHeuristic]_vars

(***************************************************************************)
(* Properties of extract_mermaid_code, checked under SpecExtract           *)
(***************************************************************************)
\* position of the leftmost fence of t, 0 when t has none
OpeningFence(t) == NextFence(t, 1)

\* position of the first fence after the opening fence, 0 when none
ClosingFence(t) ==
  IF OpeningFence(t) = 0 THEN 0 ELSE NextFence(t, OpeningFence(t) + 3)

\* what stands between the opening and the closing fence
Between(t) == SubSeq(t, OpeningFence(t) + 3, ClosingFence(t) - 1)

\* a language tag: word characters right after the opening fence, up to and
\* including the newline that ends them
TagLength(mid) ==
  LET p == SkipWord(mid, 1)
  IN  IF p <= Len(mid) /\ mid[p] = "\n" THEN p ELSE 0

\* the interior of the first block: what is between the fences, without
\* the language tag
Interior(t) == SubSeq(Between(t), TagLength(Between(t)) + 1, Len(Between(t)))

\* C8: a text with a complete fenced block (one or several) is extracted
\* to the trimmed interior of its first block, the language tag left out;
\* a text with no complete fenced block (unterminated fence, white space
\* only) is extracted to the trimmed text.
C8_ExtractionRoundTrip ==
  step = "extracted" =>
     IF ClosingFence(text) # 0
     THEN out1 = Strip(Interior(text))
     ELSE out1 = Strip(text)

\* C8 witness: a block with a language tag and a padded interior was
\* extracted
C8_Witness ==
  /\ step = "extracted"
  /\ ClosingFence(text) # 0
  /\ TagLength(Between(text)) > 1
  /\ Strip(Interior(text)) # Interior(text)
  /\ out1 # <<>>

(***************************************************************************)
(* Properties of sanitize_markdown_in_labels, checked under SpecSanitize   *)
(***************************************************************************)
\* C9: the sanitizer applied to its own output gives that output back.
C9_SanitizerIdempotent ==
  step = "twice" => out2 = out1

\* C9 witness: the first pass rewrote a numbered marker and a line break
C9_Witness ==
  /\ step = "twice"
  /\ out1 # text
  /\ HasLit(out1, <<":", " ">>, FALSE)
  /\ HasLit(out1, <<"\\", "n">>, FALSE)

\* the pieces of t that lie outside the label matches, left to right
RECURSIVE OutsideFrom(_, _, _)
OutsideFrom(t, i, seg) ==
  IF i > Len(t) THEN <<seg>>
  ELSE IF LabelAt(t, i) # 0
  THEN <<seg>> \o OutsideFrom(t, LabelAt(t, i) + 2, <<>>)
  ELSE OutsideFrom(t, i + 1, Append(seg, t[i]))

Outside(t) == OutsideFrom(t, 1, <<>>)

\* a piece holds something the sanitizer rewrites inside labels
Rewritable(seg) ==
  \/ HasLit(seg, <<"1", ".", " ">>, FALSE)
  \/ HasLit(seg, <<"-", " ">>, FALSE)
  \/ HasLit(seg, <<"<", "b", "r", ">">>, FALSE)
  \/ HasLit(seg, <<"<", "b", "r", "/", ">">>, FALSE)

\* C10: the sanitizer leaves every character outside the label matches as
\* it was: the output has the same labels in the same places, and the
\* pieces between them are those of the input.
C10_SanitizerTargetsLabels ==
  step \in {"once", "twice"} => Outside(out1) = Outside(text)

\* C10 witness: a label was rewritten while a piece outside the labels
\* holds a list marker or a line-break tag
C10_Witness ==
  /\ step = "once"
  /\ out1 # text
  /\ \E k \in 1..Len(Outside(text)) : Rewritable(Outside(text)[k])

(***************************************************************************)
(* Properties of appears_to_be_mermaid_code, checked under SpecHeuristic   *)
(***************************************************************************)
\* the text contains sequenceDiagram or flowchart TD, as written
HasDiagramHeader(t) ==
  \/ HasLit(t, <<"s", "e", "q", "u", "e", "n", "c", "e",
                 "D", "i", "a", "g", "r", "a", "m">>, FALSE)
  \/ HasLit(t, <<"f", "l", "o", "w", "c", "h", "a", "r", "t", " ", "T", "D">>,
            FALSE)

\* a line of the text starts with "import "
HasImportLine(t) ==
  \E i \in 1..Len(t) :
     /\ LitAt(t, i, <<"i", "m", "p", "o", "r", "t", " ">>, FALSE)
     /\ (i = 1 \/ t[i - 1] = "\n")

\* the text holds one of the diagram keywords or arrows
HasDiagramPattern(t) ==
  \E k \in 1..Len(mermaid_patterns(t)) : mermaid_patterns(t)[k]

\* the text holds "import" or "def" followed by white space, or "class"
\* followed by optional white space and a colon, in this very case
LooksLikePython(t) ==
  \/ \E i \in 1..Len(t) :
        /\ LitAt(t, i, <<"i", "m", "p", "o", "r", "t">>, FALSE)
        /\ i + 6 <= Len(t)
        /\ IsSpace(t[i + 6])
  \/ \E i \in 1..Len(t) :
        /\ LitAt(t, i, <<"d", "e", "f">>, FALSE)
        /\ i + 3 <= Len(t)
        /\ IsSpace(t[i + 3])
  \/ \E i \in 1..Len(t) :
        /\ LitAt(t, i, <<"c", "l", "a", "s", "s">>, FALSE)
        /\ LitAt(t, SkipSpaces(t, i + 5), <<":">>, FALSE)

\* a text with an import line and no diagram keyword or arrow is judged
\* not to be a diagram
ImportLineRejected ==
  (step = "judged" /\ HasImportLine(text) /\ ~HasDiagramPattern(text))
     => ~looks_valid

C12_TransparentSvgAndBinary ==
  GenDone =>
     /\ ( /\ result.kind = "Succeeded"
          /\ arguments.format = "svg"
          /\ arguments.backgroundColor = "transparent" ) =>
            /\ ~HasLit(result.text, WhiteDecl, FALSE)
            /\ durable = result.text
            /\ writes = 2
     /\ (result.kind = "Succeeded" /\ arguments.format # "svg") =>
            /\ durable = proc.output
            /\ writes = 1
     /\ ( /\ arguments.format # "svg"
          /\ file_content # Unset
          /\ ~IsUtf8(file_content) ) =>
            result.kind \in {"Succeeded", "PersistFailed"}

\* C12 witness: the renderer's svg held the white declaration and the
\* request with a transparent background succeeded
C12_Witness ==
  /\ GenDone
  /\ result.kind = "Succeeded"
  /\ arguments.format = "svg"
  /\ arguments.backgroundColor = "transparent"
  /\ HasLit(proc.output, WhiteDecl, FALSE)
  /\ durable # proc.output

\* the results that end a request before the durable file is touched
EarlyResults ==
  {"MissingInput", "Warning", "RenderTimeout", "RenderFailed", "OutputMissing"}

\* C13: the durable file is written only after the renderer returned status
\* zero and left its output file; a request that ends in MissingInput, the
\* warning, RenderTimeout, RenderFailed or OutputMissing leaves the durable
\* file as it was when the request arrived; the renderer is started at
\* most once per request.
C13_DurableWrittenOnlyAfterRender ==
  /\ writes >= 1 =>
        /\ proc.state = "returned"
        /\ proc.returncode = 0
        /\ proc.output # Absent
  /\ (pc # "idle" /\ durable # durable_at_start) => writes >= 1
  /\ (GenDone /\ result.kind \in EarlyResults) =>
        (durable = durable_at_start /\ writes = 0)
  /\ mmdc_calls <= 1

\* C13 witness: the renderer failed having left an output file, and the
\* file that was at the durable location is still there
C13_Witness ==
  /\ GenDone
  /\ result.kind = "RenderFailed"
  /\ proc.output # Absent
  /\ durable_at_start = OldFile
  /\ durable = OldFile

====
